---- MODULE Spec2Model ----
(***************************************************************************)
(* Model of the Eye PDF Watcher (src/main.py): the live pairing handler     *)
(* (EyeHandler), the batch backfill (App.backfill), the retention sweep     *)
(* (remove_old_pdfs) and its self-rescheduling timer (App.auto_clean).      *)
(*                                                                         *)
(* File names and paths are sequences of one-character strings, so that    *)
(* basename, splitext, lower, endswith, split and join are computed as     *)
(* Python computes them.                                                   *)
(***************************************************************************)
EXTENDS Integers, Sequences, FiniteSets, TLC

(***************************************************************************)
(* Bounds of the model.                                                    *)
(***************************************************************************)
\* File creations the environment performs in a behaviour.
MaxEvents == 4
\* Creation events the observer's queue holds undelivered.
MaxQueue == 1
\* Entries of the watched directory when a backfill-only behaviour starts.
MaxDir == 4
\* Backfill runs the operator starts in a behaviour.
MaxBackfills == 2
\* File creations and backfill runs where backfill runs beside live watching.
MaxPairEvents == 2
MaxPairBackfills == 1
\* Files of the output directory when a sweep-only behaviour starts.
MaxOut == 2
\* Executions of the sweep callback in a behaviour.
MaxSweeps == 1
\* Resolution of the clock: ticks in a day.
TicksPerDay == 2
\* Sweep callbacks armed at a time, at which start_watching is no longer
\* followed.
MaxTimers == 2

(***************************************************************************)
(* String helpers (Python str / os.path), over sequences of characters.    *)
(***************************************************************************)
\* str.lower(), on the characters the model uses.
LowerChar(c) ==
    CASE c = "J" -> "j" [] c = "P" -> "p" [] c = "G" -> "g" [] c = "E" -> "e"
      [] c = "N" -> "n" [] c = "D" -> "d" [] c = "F" -> "f" [] c = "L" -> "l"
      [] c = "R" -> "r" [] c = "X" -> "x" [] OTHER -> c

Lower(s) == [i \in 1..Len(s) |-> LowerChar(s[i])]

\* str.endswith(suffix)
EndsWith(s, suf) ==
    /\ Len(s) >= Len(suf)
    /\ SubSeq(s, Len(s) - Len(suf) + 1, Len(s)) = suf

\* str.endswith(tuple of suffixes)
EndsWithAny(s, sufs) == \E suf \in sufs : EndsWith(s, suf)

\* Positions of character c in s.
Positions(s, c) == {i \in 1..Len(s) : s[i] = c}

Max(S) == CHOOSE x \in S : \A y \in S : y <= x
Min(S) == CHOOSE x \in S : \A y \in S : x <= y

\* os.path.basename(path): what follows the last separator.
Basename(p) ==
    IF Positions(p, "/") = {} THEN p
    ELSE SubSeq(p, Max(Positions(p, "/")) + 1, Len(p))

\* os.path.join(directory, name)
PathJoin(dir, name) == IF dir = <<>> THEN name ELSE dir \o <<"/">> \o name

\* os.path.splitext(name)[0], for a name without separator: the extension
\* starts at the last dot, unless only dots precede that dot.
SplitExtRoot(fn) ==
    LET dots == Positions(fn, ".") IN
    IF dots = {} THEN fn
    ELSE LET d == Max(dots) IN
         IF \E i \in 1..(d - 1) : fn[i] # "." THEN SubSeq(fn, 1, d - 1) ELSE fn

\* str.split(sep): the fields between the separators (empty fields kept).
RECURSIVE Split(_, _)
Split(s, sep) ==
    LET ps == Positions(s, sep) IN
    IF ps = {} THEN <<s>>
    ELSE LET p == Min(ps) IN
         <<SubSeq(s, 1, p - 1)>> \o Split(SubSeq(s, p + 1, Len(s)), sep)

\* sep.join(tokens)
RECURSIVE Join(_, _)
Join(tokens, sep) ==
    IF Len(tokens) = 0 THEN <<>>
    ELSE IF Len(tokens) = 1 THEN tokens[1]
    ELSE tokens[1] \o <<sep>> \o Join(Tail(tokens), sep)

(***************************************************************************)
(* Key extraction, as the live handler and as backfill compute it.         *)
(***************************************************************************)
\* The suffixes (".jpg", ".jpeg", ".png") of on_created and backfill.
ImageSuffixes ==
    { <<".", "j", "p", "g">>, <<".", "j", "p", "e", "g">>, <<".", "p", "n", "g">> }

\* len(tokens) < 5 rejects.
MinTokens == 5

\* The side codes ('R', 'L') of _process_file and backfill.
Sides == { <<"L">>, <<"R">> }
SideL == <<"L">>
SideR == <<"R">>

\* on_created's filter: not a directory, and the lowered path ends in an
\* image suffix.
LiveFilter(path, isdir) == ~isdir /\ EndsWithAny(Lower(path), ImageSuffixes)

\* _process_file: tokens of the extension-stripped base name.
LiveTokens(path) == Split(SplitExtRoot(Basename(path)), "_")

\* Mutant: the side code is not checked.
TokensOkAnySide(tokens) == Len(tokens) >= MinTokens

\* _process_file's guard: len(tokens) < 5 or tokens[3] not in ('R','L') returns.
TokensOk(tokens) == Len(tokens) >= MinTokens /\ tokens[4] \in Sides

\* eye = tokens[3]
EyeOf(tokens) == tokens[4]

\* Mutant: token 0 is left out of the key.
KeyOfWithoutFirst(tokens) == Join(SubSeq(tokens, 2, 3) \o SubSeq(tokens, 5, Len(tokens)), "_")

\* key = '_'.join(tokens[:3] + tokens[4:])
KeyOf(tokens) == Join(SubSeq(tokens, 1, 3) \o SubSeq(tokens, 5, Len(tokens)), "_")

\* Whether the live path records the event's file at all.
LiveAccepts(path, isdir) == LiveFilter(path, isdir) /\ TokensOk(LiveTokens(path))

\* f"{key}.pdf"
PdfName(key) == key \o <<".", "p", "d", "f">>

(***************************************************************************)
(* The world: directories, the observer, the handler, the clock.           *)
(***************************************************************************)
\* The clock when a behaviour starts, in ticks.
Epoch == 40 * TicksPerDay

\* App.input_dir and App.output_dir (both set: start_watching's guard).
InputDir == <<"i">>
OutputDir == <<"o">>

Chars(tokens) == Join(tokens, "_")
Jpg == <<".", "j", "p", "g">>

\* The directory entries the environment may create in the watched directory.
\* K1 = a_b_c_d has two L files (two paths) and one R file; K2 = a_b_c_e has
\* an L and an R file; the others fail the acceptance contract.
FileL1  == [name |-> Chars(<< <<"a">>, <<"b">>, <<"c">>, <<"L">>, <<"d">> >>) \o Jpg,
            isdir |-> FALSE]
FileR1  == [name |-> Chars(<< <<"a">>, <<"b">>, <<"c">>, <<"R">>, <<"d">> >>) \o Jpg,
            isdir |-> FALSE]
FileL1b == [name |-> Chars(<< <<"a">>, <<"b">>, <<"c">>, <<"L">>, <<"d">> >>)
                        \o <<".", "P", "N", "G">>,
            isdir |-> FALSE]
FileL2  == [name |-> Chars(<< <<"a">>, <<"b">>, <<"c">>, <<"L">>, <<"e">> >>)
                        \o <<".", "j", "p", "e", "g">>,
            isdir |-> FALSE]
FileR2  == [name |-> Chars(<< <<"a">>, <<"b">>, <<"c">>, <<"R">>, <<"e">> >>) \o Jpg,
            isdir |-> FALSE]
\* Side code that is neither 'L' nor 'R'.
FileX   == [name |-> Chars(<< <<"a">>, <<"b">>, <<"c">>, <<"X">>, <<"d">> >>) \o Jpg,
            isdir |-> FALSE]
\* Four tokens only.
FileShort == [name |-> Chars(<< <<"a">>, <<"b">>, <<"c">>, <<"R">> >>) \o Jpg,
              isdir |-> FALSE]
\* Not an image extension.
FileTxt == [name |-> Chars(<< <<"a">>, <<"b">>, <<"c">>, <<"R">>, <<"d">> >>)
                        \o <<".", "t", "x", "t">>,
            isdir |-> FALSE]
\* A directory whose name would pass the contract.
DirR2   == [name |-> Chars(<< <<"a">>, <<"b">>, <<"c">>, <<"R">>, <<"e">> >>)
                        \o <<".", "p", "n", "g">>,
            isdir |-> TRUE]

Entries == {FileL1, FileR1, FileL1b, FileL2, FileR2, FileX, FileShort, FileTxt, DirR2}

\* The event watchdog delivers for the creation of entry e.
EventOf(e) == [path |-> PathJoin(InputDir, e.name), isdir |-> e.isdir]

VARIABLES
    indir,      \* entries of the watched directory
    nEvents,    \* file creations so far
    queue,      \* the observer's queue of undelivered creation events
    watching,   \* an observer is running (start_watching .. stop_watching)
    pending,    \* EyeHandler.pending of the live handler: key -> side -> path
    arrived,    \* per watching session, the paths whose events on_created took
    outdir,     \* files of the output directory: name -> [pages, mtime]
    emits,      \* <<driver, document name>> -> number of emissions so far
    now,        \* the clock (ticks)
    mpc,        \* where the Tk main thread is: "idle", "fill", "sweep", "remove"
    fkeys,      \* backfill: keys of its pending dict still to visit, in order
    fpending,   \* backfill: its local pending dict: key -> side -> path
    fhandler,   \* backfill: EyeHandler.pending of its own fresh handler
    fcount,     \* backfill: count
    frun,       \* backfill: what the current run listed and emitted so far
    fillLog,    \* the backfill runs that ended, oldest first
    timers,     \* armed master.after(.., self.auto_clean) callbacks
    slist,      \* sweep: names of the listing still to visit, in order
    snow,       \* sweep: now, as remove_old_pdfs read it on entry
    removed,    \* sweep: removed
    srun,       \* sweep: what the current sweep listed, visited, failed on
    sweepLog,   \* the executions of the sweep callback that ended
    last        \* the last operation, its input and its outcome

dirVars  == <<indir, nEvents>>
liveVars == <<queue, watching, pending, arrived>>
outVars  == <<outdir, emits>>
fillVars == <<fkeys, fpending, fhandler, fcount, frun, fillLog>>
sweepVars == <<timers, slist, snow, removed, srun, sweepLog>>

vars == <<indir, nEvents, queue, watching, pending, arrived, outdir, emits, now, mpc,
          fkeys, fpending, fhandler, fcount, frun, fillLog,
          timers, slist, snow, removed, srun, sweepLog, last>>

(***************************************************************************)
(* Finite maps.                                                            *)
(***************************************************************************)
EmptyMap == <<>>
Has(m, k) == k \in DOMAIN m
MapPut(m, k, v) == [x \in DOMAIN m \cup {k} |-> IF x = k THEN v ELSE m[x]]
MapDel(m, k) == [x \in DOMAIN m \ {k} |-> m[x]]
Count(m, k) == IF Has(m, k) THEN m[k] ELSE 0

(***************************************************************************)
(* EyeHandler.                                                             *)
(***************************************************************************)
\* Mutant: a side already held keeps the path it has.
RecordSideKeepFirst(p, key, eye, path) ==
    IF Has(p, key) /\ Has(p[key], eye) THEN p
    ELSE MapPut(p, key, MapPut(IF Has(p, key) THEN p[key] ELSE EmptyMap, eye, path))

\* self.pending[key][eye] = path, on a defaultdict(dict).
RecordSide(p, key, eye, path) ==
    MapPut(p, key, MapPut(IF Has(p, key) THEN p[key] ELSE EmptyMap, eye, path))

\* 'L' in self.pending[key] and 'R' in self.pending[key]
Complete(p, key) == Has(p[key], SideL) /\ Has(p[key], SideR)

\* Mutant: the pages in the order ('R', 'L').
PdfPagesRightFirst(p, key) == <<p[key][SideR], p[key][SideL]>>

\* paths = [self.pending[key][e] for e in ('L', 'R')]
PdfPages(p, key) == <<p[key][SideL], p[key][SideR]>>

\* imgs[0].save(out_pdf, ...): creates or overwrites the document.
SavePdf(out, key, pages, t) == MapPut(out, PdfName(key), [pages |-> pages, mtime |-> t])

\* Mutant: the entry stays in the store after the document is written.
KeepPending(p, key) == p

\* Mutant: the source files of an emitted document are moved away.
SourcesArchived(dir, pages) ==
    {e \in dir : PathJoin(InputDir, e.name) \notin {pages[i] : i \in DOMAIN pages}}

\* The watched directory after create_pdf: the sources are opened for
\* reading and stay where they are.
SourcesAfter(dir, pages) == dir

\* Mutant: the R side of the entry survives the emission.
DelPendingKeepRight(p, key) == MapPut(p, key, [x \in {SideR} |-> p[key][x]])

\* del self.pending[key]
DelPending(p, key) == MapDel(p, key)

\* Mutant: the entry is dropped when Image.open raises.
DropOnRaise(p, key) == MapDel(p, key)

\* The store create_pdf leaves when Image.open raises: the del is not reached.
PendingAfterRaise(p, key) == p

\* emits with one more emission of document name by driver.
Emitted(em, driver, name) == MapPut(em, <<driver, name>>, Count(em, <<driver, name>>) + 1)

NoDoc == <<>>

Op(op, path, accepted, raised, doc) ==
    [op |-> op, path |-> path, accepted |-> accepted, raised |-> raised, doc |-> doc]

\* on_created(event), for the event at the head of the observer's queue, on
\* the observer's thread.  decodeFails: Image.open raises in create_pdf.
OnCreated(decodeFails) ==
    /\ watching
    /\ queue # <<>>
    /\ LET ev == Head(queue)
           tokens == LiveTokens(ev.path)
           key == KeyOf(tokens)
           p1 == RecordSide(pending, key, EyeOf(tokens), ev.path)
       IN
       /\ queue' = Tail(queue)
       /\ arrived' = [arrived EXCEPT ![Len(arrived)] = @ \cup {ev.path}]
       /\ IF ~LiveFilter(ev.path, ev.isdir) \/ ~TokensOk(tokens)
          THEN /\ ~decodeFails
               /\ UNCHANGED <<pending, outdir, emits, indir>>
               /\ last' = Op("on_created", ev.path, FALSE, FALSE, NoDoc)
          ELSE IF ~Complete(p1, key)
          THEN /\ ~decodeFails
               /\ pending' = p1
               /\ UNCHANGED <<outdir, emits, indir>>
               /\ last' = Op("on_created", ev.path, TRUE, FALSE, NoDoc)
          ELSE IF decodeFails
          THEN /\ pending' = PendingAfterRaise(p1, key)
               /\ UNCHANGED <<outdir, emits, indir>>
               /\ last' = Op("on_created", ev.path, TRUE, TRUE, NoDoc)
          ELSE /\ outdir' = SavePdf(outdir, key, PdfPages(p1, key), now)
               /\ indir' = SourcesAfter(indir, PdfPages(p1, key))
               /\ pending' = DelPending(p1, key)
               /\ emits' = Emitted(emits, "live", PdfName(key))
               /\ last' = Op("on_created", ev.path, TRUE, FALSE, PdfName(key))
    /\ UNCHANGED <<nEvents, watching, now, mpc, fillVars, sweepVars>>

\* The environment creates entry e in the watched directory; a running
\* observer queues the creation event.
CreateFile(e) ==
    /\ nEvents < MaxEvents
    /\ Len(queue) < MaxQueue
    /\ nEvents' = nEvents + 1
    /\ indir' = indir \cup {e}
    /\ queue' = IF watching THEN Append(queue, EventOf(e)) ELSE queue
    /\ last' = Op("create", EventOf(e).path, FALSE, FALSE, NoDoc)
    /\ UNCHANGED <<watching, pending, arrived, outVars, now, mpc, fillVars, sweepVars>>

(***************************************************************************)
(* App.start_watching and App.stop_watching, on the Tk main thread.  The   *)
(* Start button is enabled while not watching, the Stop button while       *)
(* watching (set_controls_state).                                          *)
(***************************************************************************)
\* Mutant: the new session goes on with the store of the old handler.
StoreKept(old) == old

\* handler = EyeHandler(...): self.pending = defaultdict(dict).
FreshStore(old) == EmptyMap

\* start_watching: a new handler on a new observer, and a sweep armed with
\* self.master.after(0, self.auto_clean).
StartWatching ==
    /\ mpc = "idle"
    /\ ~watching
    /\ timers < MaxTimers
    /\ watching' = TRUE
    /\ pending' = FreshStore(pending)
    /\ queue' = <<>>
    /\ arrived' = Append(arrived, {})
    /\ timers' = timers + 1
    /\ last' = Op("start_watching", <<>>, FALSE, FALSE, NoDoc)
    /\ UNCHANGED <<dirVars, outVars, now, mpc, fillVars, slist, snow, removed, srun, sweepLog>>

\* stop_watching: observer.stop() and join(); the events the observer has
\* not dispatched are dropped with it.  No armed sweep is cancelled.
StopWatching ==
    /\ mpc = "idle"
    /\ watching
    /\ watching' = FALSE
    /\ queue' = <<>>
    /\ last' = Op("stop_watching", <<>>, FALSE, FALSE, NoDoc)
    /\ UNCHANGED <<dirVars, pending, arrived, outVars, now, mpc, fillVars, sweepVars>>

(***************************************************************************)
(* App.backfill, on the Tk main thread.                                    *)
(***************************************************************************)
\* Mutant: directories are not skipped.
FillFilterNoDirCheck(fname, isdir) == EndsWithAny(Lower(fname), ImageSuffixes)

\* backfill's filter: os.path.isdir(path) or not an image suffix -> continue.
FillFilter(fname, isdir) == ~isdir /\ EndsWithAny(Lower(fname), ImageSuffixes)

\* Mutant: the extension is not stripped.
FillTokensWithExt(fname) == Split(fname, "_")

\* tokens = os.path.splitext(fname)[0].split('_')
FillTokens(fname) == Split(SplitExtRoot(fname), "_")

\* Whether backfill records the directory entry at all.
FillAccepts(fname, isdir) == FillFilter(fname, isdir) /\ TokensOk(FillTokens(fname))

\* pending[key][eye] = (path, None), for one entry of the listing.
FillRecord(p, e) ==
    LET tokens == FillTokens(e.name) IN
    IF FillFilter(e.name, e.isdir) /\ TokensOk(tokens)
    THEN RecordSide(p, KeyOf(tokens), EyeOf(tokens), PathJoin(InputDir, e.name))
    ELSE p

\* The for loop over os.listdir(input_dir): the pending dict it builds.
RECURSIVE FillScan(_, _)
FillScan(listing, p) ==
    IF listing = <<>> THEN p
    ELSE FillScan(Tail(listing), FillRecord(p, Head(listing)))

\* pending.items() iterates in insertion order: the keys in the order the
\* listing first produced them.
RECURSIVE FillOrder(_, _)
FillOrder(listing, seen) ==
    IF listing = <<>> THEN <<>>
    ELSE LET e == Head(listing)
             tokens == FillTokens(e.name)
             k == KeyOf(tokens)
         IN IF FillFilter(e.name, e.isdir) /\ TokensOk(tokens) /\ k \notin seen
            THEN <<k>> \o FillOrder(Tail(listing), seen \cup {k})
            ELSE FillOrder(Tail(listing), seen)

\* 'L' in eyes and 'R' in eyes
FillComplete(eyes) == Has(eyes, SideL) /\ Has(eyes, SideR)

\* Mutant: backfill works on the live handler's store.
LiveStoreShared(live, h) == h

\* handler = EyeHandler(...): backfill's handler is a new object, so writing
\* its store h leaves the store of the live handler as it is.
LiveStoreAfter(live, h) == live

\* handler.pending[key] = {'L': eyes['L'][0], 'R': eyes['R'][0]}
FillHand(h, key, eyes) == MapPut(h, key, (SideL :> eyes[SideL]) @@ (SideR :> eyes[SideR]))

\* os.listdir returns the entries in an arbitrary order.
RECURSIVE Listings(_)
Listings(S) ==
    IF S = {} THEN {<<>>}
    ELSE UNION {{<<x>> \o l : l \in Listings(S \ {x})} : x \in S}

NoRun == [snap |-> {}, docs |-> <<>>]

\* backfill up to the end of its first loop: a fresh handler, the listing,
\* the local pending dict.
BackfillStart(listing) ==
    /\ mpc = "idle"
    /\ Len(fillLog) < MaxBackfills
    /\ Len(listing) = Cardinality(indir)
    /\ {listing[i] : i \in 1..Len(listing)} = indir
    /\ mpc' = "fill"
    /\ fhandler' = EmptyMap
    /\ fpending' = FillScan(listing, EmptyMap)
    /\ fkeys' = FillOrder(listing, {})
    /\ fcount' = 0
    /\ frun' = [snap |-> indir, docs |-> <<>>]
    /\ last' = Op("backfill", <<>>, FALSE, FALSE, NoDoc)
    /\ UNCHANGED <<dirVars, liveVars, outVars, now, fillLog, sweepVars>>

\* One iteration of the second loop.  An exception of create_pdf leaves
\* backfill: nothing is reported.
BackfillStep(decodeFails) ==
    /\ mpc = "fill"
    /\ fkeys # <<>>
    /\ LET key == Head(fkeys)
           eyes == fpending[key]
           h1 == FillHand(fhandler, key, eyes)
       IN
       IF ~FillComplete(eyes)
       THEN /\ ~decodeFails
            /\ fkeys' = Tail(fkeys)
            /\ last' = Op("backfill_skip", <<>>, FALSE, FALSE, NoDoc)
            /\ UNCHANGED <<mpc, fhandler, fcount, frun, fillLog, outVars, indir, pending>>
       ELSE IF decodeFails
       THEN /\ mpc' = "idle"
            /\ fhandler' = PendingAfterRaise(h1, key)
            /\ pending' = LiveStoreAfter(pending, PendingAfterRaise(h1, key))
            /\ fillLog' = Append(fillLog, [snap |-> frun.snap, docs |-> frun.docs,
                                           reported |-> FALSE, count |-> fcount,
                                           out |-> DOMAIN outdir])
            /\ last' = Op("backfill_emit", <<>>, TRUE, TRUE, NoDoc)
            /\ UNCHANGED <<fkeys, fcount, frun, outVars, indir>>
       ELSE /\ outdir' = SavePdf(outdir, key, PdfPages(h1, key), now)
            /\ indir' = SourcesAfter(indir, PdfPages(h1, key))
            /\ fhandler' = DelPending(h1, key)
            /\ pending' = LiveStoreAfter(pending, DelPending(h1, key))
            /\ emits' = Emitted(emits, "backfill", PdfName(key))
            /\ fcount' = fcount + 1
            /\ fkeys' = Tail(fkeys)
            /\ frun' = [frun EXCEPT !.docs = Append(@, PdfName(key))]
            /\ last' = Op("backfill_emit", <<>>, TRUE, FALSE, PdfName(key))
            /\ UNCHANGED <<mpc, fillLog>>
    /\ UNCHANGED <<nEvents, queue, watching, arrived, now, fpending, sweepVars>>

\* messagebox.showinfo("Backfill Complete", f"Processed {count} pairs.")
BackfillReport ==
    /\ mpc = "fill"
    /\ fkeys = <<>>
    /\ mpc' = "idle"
    /\ fillLog' = Append(fillLog, [snap |-> frun.snap, docs |-> frun.docs,
                                   reported |-> TRUE, count |-> fcount,
                                   out |-> DOMAIN outdir])
    /\ last' = Op("backfill_report", <<>>, FALSE, FALSE, NoDoc)
    /\ UNCHANGED <<dirVars, liveVars, outVars, now, fkeys, fpending, fhandler, fcount, frun,
                   sweepVars>>

(***************************************************************************)
(* remove_old_pdfs and App.auto_clean, on the Tk main thread.              *)
(***************************************************************************)
\* days=30, the default remove_old_pdfs is called with.
Days == 30

PdfSuffix == <<".", "p", "d", "f">>

\* fname.lower().endswith('.pdf')
IsPdfName(fname) == EndsWith(Lower(fname), PdfSuffix)

\* timedelta.days of a difference of delta ticks: the whole days, rounded down.
WholeDays(delta) == delta \div TicksPerDay

\* Mutant: a file of exactly `days` whole days is due as well.
ExpiredAtThreshold(t, mtime) == WholeDays(t - mtime) >= Days

\* (now - mtime).days > days
Expired(t, mtime) == WholeDays(t - mtime) > Days

\* Mutant: the exception ends the loop.
LoopAborted(rest) == <<>>

\* except Exception: pass -- the loop goes on with the rest of the listing.
AfterException(rest) == rest

NoSweep == [listing |-> <<>>, snap |-> EmptyMap, seen |-> {}, failed |-> {}]

\* The timer fires: auto_clean calls remove_old_pdfs, which reads the clock
\* and lists the output directory.  listFails: os.listdir raises; the
\* exception leaves remove_old_pdfs and auto_clean.
AutoClean(listing, listFails) ==
    /\ mpc = "idle"
    /\ timers > 0
    /\ Len(sweepLog) < MaxSweeps
    /\ Len(listing) = Cardinality(DOMAIN outdir)
    /\ {listing[i] : i \in 1..Len(listing)} = DOMAIN outdir
    /\ IF listFails
       THEN /\ timers' = timers - 1
            /\ sweepLog' = Append(sweepLog,
                                  [raised |-> TRUE, run |-> NoSweep, t |-> now,
                                   removed |-> 0, after |-> DOMAIN outdir])
            /\ last' = Op("auto_clean", <<>>, FALSE, TRUE, NoDoc)
            /\ UNCHANGED <<mpc, slist, snow, removed, srun>>
       ELSE /\ timers' = timers - 1
            /\ mpc' = "sweep"
            /\ snow' = now
            /\ removed' = 0
            /\ slist' = listing
            /\ srun' = [listing |-> listing, snap |-> outdir, seen |-> {}, failed |-> {}]
            /\ last' = Op("auto_clean", <<>>, FALSE, FALSE, NoDoc)
            /\ UNCHANGED sweepLog
    /\ UNCHANGED <<dirVars, liveVars, outVars, now, fillVars>>

\* One iteration of the loop up to the decision to remove.  statFails:
\* os.path.getmtime raises.
SweepFile(statFails) ==
    /\ mpc = "sweep"
    /\ slist # <<>>
    /\ LET fname == Head(slist) IN
       IF ~IsPdfName(fname)
       THEN /\ ~statFails
            /\ slist' = Tail(slist)
            /\ srun' = [srun EXCEPT !.seen = @ \cup {fname}]
            /\ UNCHANGED mpc
       ELSE IF statFails \/ ~Has(outdir, fname)
       THEN /\ slist' = AfterException(Tail(slist))
            /\ srun' = [srun EXCEPT !.seen = @ \cup {fname}, !.failed = @ \cup {fname}]
            /\ UNCHANGED mpc
       ELSE IF Expired(snow, outdir[fname].mtime)
       THEN /\ mpc' = "remove"
            /\ UNCHANGED <<slist, srun>>
       ELSE /\ slist' = Tail(slist)
            /\ srun' = [srun EXCEPT !.seen = @ \cup {fname}]
            /\ UNCHANGED mpc
    /\ last' = Op("sweep_file", <<>>, FALSE, statFails, NoDoc)
    /\ UNCHANGED <<dirVars, liveVars, outVars, now, fillVars, timers, snow, removed, sweepLog>>

\* os.remove(path); removed += 1.  removeFails: os.remove raises.
SweepRemove(removeFails) ==
    /\ mpc = "remove"
    /\ LET fname == Head(slist) IN
       IF removeFails \/ ~Has(outdir, fname)
       THEN /\ slist' = AfterException(Tail(slist))
            /\ srun' = [srun EXCEPT !.seen = @ \cup {fname}, !.failed = @ \cup {fname}]
            /\ UNCHANGED <<outdir, removed>>
       ELSE /\ outdir' = MapDel(outdir, fname)
            /\ removed' = removed + 1
            /\ slist' = Tail(slist)
            /\ srun' = [srun EXCEPT !.seen = @ \cup {fname}]
    /\ mpc' = "sweep"
    /\ last' = Op("sweep_remove", <<>>, FALSE, removeFails, NoDoc)
    /\ UNCHANGED <<dirVars, liveVars, emits, now, fillVars, timers, snow, sweepLog>>

\* remove_old_pdfs returns; auto_clean arms the next sweep:
\* self.master.after(CLEAN_INTERVAL_MS, self.auto_clean).
SweepEnd ==
    /\ mpc = "sweep"
    /\ slist = <<>>
    /\ mpc' = "idle"
    /\ timers' = timers + 1
    /\ sweepLog' = Append(sweepLog, [raised |-> FALSE, run |-> srun, t |-> snow,
                                     removed |-> removed, after |-> DOMAIN outdir])
    /\ last' = Op("sweep_end", <<>>, FALSE, FALSE, NoDoc)
    /\ UNCHANGED <<dirVars, liveVars, outVars, now, fillVars, slist, snow, removed, srun>>

(***************************************************************************)
(* Specifications.                                                         *)
(***************************************************************************)
InitCommon ==
    /\ nEvents = 0
    /\ queue = <<>>
    /\ pending = EmptyMap
    /\ arrived = << {} >>
    /\ emits = EmptyMap
    /\ mpc = "idle"
    /\ fkeys = <<>>
    /\ fpending = EmptyMap
    /\ fhandler = EmptyMap
    /\ fcount = 0
    /\ frun = NoRun
    /\ fillLog = <<>>
    /\ timers = 1
    /\ slist = <<>>
    /\ snow = 0
    /\ removed = 0
    /\ srun = NoSweep
    /\ sweepLog = <<>>
    /\ last = Op("init", <<>>, FALSE, FALSE, NoDoc)

\* The pairing path: live watching with backfills started beside it.
Init ==
    /\ InitCommon
    /\ indir = {}
    /\ outdir = EmptyMap
    /\ now = Epoch
    /\ watching = TRUE

Live ==
    \/ \E e \in Entries : CreateFile(e)
    \/ \E decodeFails \in BOOLEAN : OnCreated(decodeFails)

\* The entries created while a backfill may run beside the live path: a
\* complete pair, a lone side of another key and the rejected names.
PairEntries == {FileL1, FileR1, FileL2, FileX, FileShort, FileTxt, DirR2}

LivePair ==
    \/ nEvents < MaxPairEvents /\ \E e \in PairEntries : CreateFile(e)
    \/ \E decodeFails \in BOOLEAN : OnCreated(decodeFails)

FillPair ==
    \/ Len(fillLog) < MaxPairBackfills /\ \E listing \in Listings(indir) : BackfillStart(listing)
    \/ \E decodeFails \in BOOLEAN : BackfillStep(decodeFails)
    \/ BackfillReport

Fill ==
    \/ \E listing \in Listings(indir) : BackfillStart(listing)
    \/ \E decodeFails \in BOOLEAN : BackfillStep(decodeFails)
    \/ BackfillReport

Next == LivePair \/ FillPair

Spec == Init /\ [][Next]_vars

\* The live path alone.
SpecLive == Init /\ [][Live]_vars

\* Backfill alone, over a directory that nothing changes.
InitFill ==
    /\ InitCommon
    /\ indir \in {S \in SUBSET Entries : Cardinality(S) <= MaxDir}
    /\ outdir = EmptyMap
    /\ now = Epoch
    /\ watching = FALSE

SpecFill == InitFill /\ [][Fill]_vars

\* The retention sweep alone, over an output directory that holds files of
\* several names and ages when watching starts.
OutNames == { <<"x", ".", "p", "d", "f">>, <<"y", ".", "P", "D", "F">>,
              <<"z", ".", "t", "x", "t">>, <<"x", "p", "d", "f">> }

\* Ages in ticks: 29 days, 30 days, one tick short of 31 days, 31 days.
Ages == {29 * TicksPerDay, 30 * TicksPerDay, 31 * TicksPerDay - 1, 31 * TicksPerDay}

OutDirs(names) == [names -> {[pages |-> <<>>, mtime |-> Epoch - a] : a \in Ages}]

InitSweep ==
    /\ InitCommon
    /\ indir = {}
    /\ watching = TRUE
    /\ now = Epoch
    /\ \E names \in {S \in SUBSET OutNames : Cardinality(S) <= MaxOut} :
          outdir \in OutDirs(names)

Sweep ==
    \/ \E listing \in Listings(DOMAIN outdir), listFails \in BOOLEAN :
          AutoClean(listing, listFails)
    \/ \E statFails \in BOOLEAN : SweepFile(statFails)
    \/ \E removeFails \in BOOLEAN : SweepRemove(removeFails)
    \/ SweepEnd

SpecSweep == InitSweep /\ [][Sweep]_vars

(***************************************************************************)
(* What the entries above are, written down by hand: the properties below  *)
(* compare the code's parsing with these tables.                           *)
(***************************************************************************)
Key1 == <<"a", "_", "b", "_", "c", "_", "d">>
Key2 == <<"a", "_", "b", "_", "c", "_", "e">>
Doc1 == <<"a", "_", "b", "_", "c", "_", "d", ".", "p", "d", "f">>
Doc2 == <<"a", "_", "b", "_", "c", "_", "e", ".", "p", "d", "f">>

ValidEntries == {FileL1, FileR1, FileL1b, FileL2, FileR2}
RejectedFiles == {FileX, FileShort, FileTxt}
LeftEntries == {FileL1, FileL1b, FileL2}
Key1Entries == {FileL1, FileR1, FileL1b}

PathOf(e) == <<"i", "/">> \o e.name
EntryAt(path) == CHOOSE e \in Entries : PathOf(e) = path
KeyIs(e) == IF e \in Key1Entries THEN Key1 ELSE Key2
DocIs(e) == IF e \in Key1Entries THEN Doc1 ELSE Doc2
SideIs(e) == IF e \in LeftEntries THEN "L" ELSE "R"
OtherSide(s) == IF s = "L" THEN "R" ELSE "L"
\* The sides an entry of a store holds, and the path it holds for a side.
SidesHeld(entry) == {s \in {"L", "R"} : <<s>> \in DOMAIN entry}
Held(entry, s) == entry[<<s>>]
\* Exactly one more emission, of document doc by driver, than before.
OneMoreEmission(before, after, driver, doc) ==
    /\ DOMAIN after = DOMAIN before \cup {<<driver, doc>>}
    /\ \A k \in DOMAIN after :
         after[k] = (IF k \in DOMAIN before THEN before[k] ELSE 0)
                    + (IF k = <<driver, doc>> THEN 1 ELSE 0)
\* The handler takes the event at the head of the queue.
Delivered(decodeFails) == OnCreated(decodeFails)
Arriving == EntryAt(Head(queue).path)

(***************************************************************************)
(* C1.  Live path: a valid L file and a valid R file of one key, delivered *)
(* in either order to a store that has no entry for the key, with no       *)
(* decode failure, give exactly one document <key>.pdf; it is emitted at   *)
(* the second arrival and not before; its pages are [path of L, path of R] *)
(* whatever the order.  As steps of the handler: the first arrival emits    *)
(* nothing and leaves the entry holding that side alone; the arrival of    *)
(* the other side emits once, the L path first; no other event touches     *)
(* the entry in between.                                                   *)
(***************************************************************************)
C1_FirstArrival ==
    (Arriving \in ValidEntries /\ ~Has(pending, KeyIs(Arriving)))
    => /\ emits' = emits
       /\ outdir' = outdir
       /\ DOMAIN pending' = DOMAIN pending \cup {KeyIs(Arriving)}
       /\ SidesHeld(pending'[KeyIs(Arriving)]) = {SideIs(Arriving)}
       /\ Held(pending'[KeyIs(Arriving)], SideIs(Arriving)) = Head(queue).path

C1_SecondArrival ==
    LET k == KeyIs(Arriving)
        s == SideIs(Arriving)
    IN (/\ Arriving \in ValidEntries
        /\ Has(pending, k)
        /\ SidesHeld(pending[k]) = {OtherSide(s)})
       => /\ OneMoreEmission(emits, emits', "live", DocIs(Arriving))
          /\ DOMAIN outdir' = DOMAIN outdir \cup {DocIs(Arriving)}
          /\ \A n \in DOMAIN outdir : n # DocIs(Arriving) => outdir'[n] = outdir[n]
          /\ outdir'[DocIs(Arriving)].pages =
                IF s = "L" THEN <<Head(queue).path, Held(pending[k], "R")>>
                ELSE <<Held(pending[k], "L"), Head(queue).path>>

C1_OtherEvents ==
    \A k \in DOMAIN pending :
        (Arriving \notin ValidEntries \/ KeyIs(Arriving) # k)
        => (Has(pending', k) /\ pending'[k] = pending[k])

C1_PairEmittedOnceInOrder ==
    [][ /\ Delivered(FALSE) => (C1_FirstArrival /\ C1_SecondArrival)
        /\ (\E d \in BOOLEAN : Delivered(d)) => C1_OtherEvents ]_vars

\* R arrived first, L second: the one document of the key has L as page one.
C1_Witness ==
    /\ last.op = "on_created"
    /\ last.path = PathOf(FileL1)
    /\ last.doc = Doc1
    /\ Count(emits, <<"live", Doc1>>) = 1
    /\ outdir[Doc1].pages = <<PathOf(FileL1), PathOf(FileR1)>>

(***************************************************************************)
(* C2.  A file name that fails the acceptance contract (extension not jpg, *)
(* jpeg or png; fewer than 5 tokens; token 3 neither 'L' nor 'R') creates  *)
(* no pending entry, not even an empty one, and leads to no document,      *)
(* in the live path and in backfill: the live store is the same after the  *)
(* event, the dict backfill builds holds the keys and paths of the valid   *)
(* files of the listing only, and no store or document ever refers to a    *)
(* rejected file.                                                          *)
(***************************************************************************)
RejectedPaths == {PathOf(e) : e \in RejectedFiles}
PathsOf(store) == UNION {{store[k][s] : s \in DOMAIN store[k]} : k \in DOMAIN store}
PagesOf(out) == UNION {{out[n].pages[i] : i \in DOMAIN out[n].pages} : n \in DOMAIN out}

C2_LiveRejected ==
    (Arriving \in RejectedFiles)
    => (pending' = pending /\ outdir' = outdir /\ emits' = emits)

C2_FillRejected ==
    /\ DOMAIN fpending' = {KeyIs(e) : e \in indir \cap ValidEntries}
    /\ \A k \in DOMAIN fpending' : DOMAIN fpending'[k] # {}
    /\ PathsOf(fpending') \subseteq {PathOf(e) : e \in indir \cap ValidEntries}
    /\ outdir' = outdir
    /\ emits' = emits

C2_NoneRejected ==
    /\ PathsOf(pending) \cap RejectedPaths = {}
    /\ PathsOf(fpending) \cap RejectedPaths = {}
    /\ PathsOf(fhandler) \cap RejectedPaths = {}
    /\ PagesOf(outdir) \cap RejectedPaths = {}

C2_RejectedNamesIgnored ==
    [][ /\ (\E d \in BOOLEAN : Delivered(d)) => C2_LiveRejected
        /\ (\E listing \in Listings(indir) : BackfillStart(listing)) => C2_FillRejected
        /\ C2_NoneRejected' ]_vars

\* Rejected files only were created: the handler has taken their events and
\* a backfill has listed them, and every store and the output are empty.
C2_Witness ==
    /\ indir # {}
    /\ indir \subseteq RejectedFiles
    /\ watching
    /\ queue = <<>>
    /\ mpc = "fill"
    /\ frun.snap = indir
    /\ pending = EmptyMap
    /\ fpending = EmptyMap
    /\ outdir = EmptyMap

(***************************************************************************)
(* C3.  A backfill over a directory snapshot with N keys that have both    *)
(* sides and M keys that have one side, with no decode failure, emits      *)
(* exactly N documents, one per complete key, reports the count N, and     *)
(* emits nothing for the M single-sided keys.                              *)
(***************************************************************************)
\* The documents of the keys a snapshot holds both sides of, and of the
\* keys it holds one side of.
CompleteDocs(snap) ==
    (IF (FileL1 \in snap \/ FileL1b \in snap) /\ FileR1 \in snap THEN {Doc1} ELSE {})
    \cup (IF FileL2 \in snap /\ FileR2 \in snap THEN {Doc2} ELSE {})
SingleDocs(snap) ==
    {DocIs(e) : e \in snap \cap ValidEntries} \ CompleteDocs(snap)
Range(seq) == {seq[i] : i \in DOMAIN seq}

C3_BackfillEmitsCompletePairs ==
    \A i \in DOMAIN fillLog :
        fillLog[i].reported =>
            /\ fillLog[i].count = Cardinality(CompleteDocs(fillLog[i].snap))
            /\ Len(fillLog[i].docs) = Cardinality(CompleteDocs(fillLog[i].snap))
            /\ Range(fillLog[i].docs) = CompleteDocs(fillLog[i].snap)
            /\ fillLog[i].out = CompleteDocs(fillLog[i].snap)
            /\ fillLog[i].out \cap SingleDocs(fillLog[i].snap) = {}

\* A run over one complete key and one single-sided key reported 1.
C3_Witness ==
    \E i \in DOMAIN fillLog :
        /\ fillLog[i].reported
        /\ CompleteDocs(fillLog[i].snap) # {}
        /\ SingleDocs(fillLog[i].snap) # {}
        /\ fillLog[i].count = 1
        /\ Len(fillLog[i].docs) = 1

(***************************************************************************)
(* C4.  No-archive variant: backfill run twice in a row over an unchanged  *)
(* watched directory with N complete pairs emits the same N documents      *)
(* again on the second run, reports N both times, and leaves the set of    *)
(* output document names as it was after the first run.                    *)
(***************************************************************************)
C4_SecondRunRepeatsFirst ==
    Len(fillLog) >= 2 =>
        /\ fillLog[1].reported /\ fillLog[2].reported
        /\ fillLog[1].count = Cardinality(CompleteDocs(fillLog[1].snap))
        /\ fillLog[2].count = Cardinality(CompleteDocs(fillLog[1].snap))
        /\ Range(fillLog[1].docs) = CompleteDocs(fillLog[1].snap)
        /\ Range(fillLog[2].docs) = CompleteDocs(fillLog[1].snap)
        /\ fillLog[2].out = fillLog[1].out

\* The same, for two runs that both reached their report.
C4_RepeatsWhenBothReport ==
    (Len(fillLog) >= 2 /\ fillLog[1].reported /\ fillLog[2].reported) =>
        /\ fillLog[1].snap = fillLog[2].snap
        /\ fillLog[1].count = Cardinality(CompleteDocs(fillLog[1].snap))
        /\ fillLog[2].count = Cardinality(CompleteDocs(fillLog[1].snap))
        /\ Len(fillLog[2].docs) = fillLog[2].count
        /\ Range(fillLog[1].docs) = CompleteDocs(fillLog[1].snap)
        /\ Range(fillLog[2].docs) = CompleteDocs(fillLog[1].snap)
        /\ fillLog[2].out = fillLog[1].out

(***************************************************************************)
(* Retention sweep: what the claims call things.                           *)
(***************************************************************************)
\* The names of OutNames that end in ".pdf", whatever the case.
PdfNames == { <<"x", ".", "p", "d", "f">>, <<"y", ".", "P", "D", "F">> }

\* Sweeps that ran to their end (os.listdir did not raise).
FinishedSweeps == {i \in DOMAIN sweepLog : ~sweepLog[i].raised}

\* Age in ticks, at the sweep's reading of the clock, of a listed file.
AgeAt(r, n) == r.t - r.run.snap[n].mtime

\* With D = 30: strictly more than 30 whole days is at least 31 days.
OlderThanThirtyDays(age) == age >= 31 * TicksPerDay

Deleted(r, n) == n \in DOMAIN r.run.snap /\ n \notin r.after

(***************************************************************************)
(* C5 as stated.  A sweep deletes a file of the output directory if and    *)
(* only if its name ends in ".pdf" (any case) and the whole-day part of    *)
(* now - mtime is strictly greater than D; with D = 30 a 31-day-old        *)
(* document is deleted, a 29-day-old and a 30-day-old one are retained.    *)
(***************************************************************************)
C5_DeletedIffExpiredPdf ==
    \A i \in FinishedSweeps :
        \A n \in DOMAIN sweepLog[i].run.snap :
            Deleted(sweepLog[i], n) <=>
                (n \in PdfNames /\ OlderThanThirtyDays(AgeAt(sweepLog[i], n)))

(***************************************************************************)
(* C5, amended.  A sweep deletes a file of the output directory if and     *)
(* only if its name ends in ".pdf" (any case), the whole-day part of       *)
(* now - mtime is strictly greater than D, and reading its modification    *)
(* time and removing it both succeed.                                      *)
(***************************************************************************)
C5_DeletedIffExpiredPdfAndNoFailure ==
    \A i \in FinishedSweeps :
        \A n \in DOMAIN sweepLog[i].run.snap :
            Deleted(sweepLog[i], n) <=>
                /\ n \in PdfNames
                /\ OlderThanThirtyDays(AgeAt(sweepLog[i], n))
                /\ n \notin sweepLog[i].run.failed

\* A sweep deleted a 31-day-old document and retained one a tick younger.
C5_Witness ==
    \E i \in FinishedSweeps :
        \E n \in PdfNames, m \in PdfNames :
            /\ n \in DOMAIN sweepLog[i].run.snap
            /\ m \in DOMAIN sweepLog[i].run.snap
            /\ AgeAt(sweepLog[i], n) = 31 * TicksPerDay
            /\ AgeAt(sweepLog[i], m) = 31 * TicksPerDay - 1
            /\ Deleted(sweepLog[i], n)
            /\ ~Deleted(sweepLog[i], m)
            /\ sweepLog[i].run.failed = {}

(***************************************************************************)
(* C6.  A failure to read the modification time of, or to remove, one      *)
(* file during a sweep is swallowed: the sweep goes on to examine the      *)
(* remaining files of the listing, still deletes those that are due, and   *)
(* the file that failed is not counted as removed.                         *)
(***************************************************************************)
C6_FailureSkipsOneFile ==
    /\ (mpc \in {"sweep", "remove"}) =>
          {slist[j] : j \in DOMAIN slist} \cup srun.seen = DOMAIN srun.snap
    /\ \A i \in FinishedSweeps :
          /\ sweepLog[i].run.seen = DOMAIN sweepLog[i].run.snap
          /\ \A n \in sweepLog[i].run.failed : ~Deleted(sweepLog[i], n)
          /\ \A n \in DOMAIN sweepLog[i].run.snap \ sweepLog[i].run.failed :
                (n \in PdfNames /\ OlderThanThirtyDays(AgeAt(sweepLog[i], n)))
                    => Deleted(sweepLog[i], n)
          /\ sweepLog[i].removed =
                Cardinality({n \in DOMAIN sweepLog[i].run.snap : Deleted(sweepLog[i], n)})

\* The first file of the listing failed, the second one was deleted and
\* is the only one counted.
C6_Witness ==
    \E i \in FinishedSweeps :
        /\ Len(sweepLog[i].run.listing) = 2
        /\ sweepLog[i].run.listing[1] \in sweepLog[i].run.failed
        /\ Deleted(sweepLog[i], sweepLog[i].run.listing[2])
        /\ sweepLog[i].removed = 1

(***************************************************************************)
(* C7.  Every execution of the sweep callback re-arms it, also when the    *)
(* listing of the output directory fails: once an execution has ended, a   *)
(* next one is scheduled.                                                  *)
(***************************************************************************)
C7_CallbackRearmed ==
    (sweepLog # <<>> /\ mpc = "idle") => timers >= 1

(***************************************************************************)
(* C8.  Live pending store: over any sequence of events in which no        *)
(* assembly fails, every entry of the store holds exactly one side, L or   *)
(* R; an assembly starts in the very step in which recording a side makes  *)
(* both sides present, and the key is removed from the store in that same  *)
(* step.  As steps: a non-failing delivery to a store of one-sided entries *)
(* leaves a store of one-sided entries, emits exactly when the arriving    *)
(* side is the one the entry of its key lacks, and then drops the key.     *)
(***************************************************************************)
OneSided(store) ==
    \A k \in DOMAIN store :
        /\ DOMAIN store[k] \subseteq {<<"L">>, <<"R">>}
        /\ Cardinality(DOMAIN store[k]) = 1

C8_CompletesPair ==
    /\ Arriving \in ValidEntries
    /\ Has(pending, KeyIs(Arriving))
    /\ OtherSide(SideIs(Arriving)) \in SidesHeld(pending[KeyIs(Arriving)])

C8_Step ==
    /\ OneSided(pending')
    /\ IF C8_CompletesPair
       THEN /\ OneMoreEmission(emits, emits', "live", DocIs(Arriving))
            /\ Has(outdir', DocIs(Arriving))
            /\ ~Has(pending', KeyIs(Arriving))
            /\ DOMAIN pending' = DOMAIN pending \ {KeyIs(Arriving)}
       ELSE /\ emits' = emits
            /\ outdir' = outdir
            /\ DOMAIN pending \subseteq DOMAIN pending'

C8_PendingEntriesOneSided ==
    [][ (Delivered(FALSE) /\ OneSided(pending)) => C8_Step ]_vars

\* Key 1 was assembled and is gone from the store, where key 2 waits with
\* one side.
C8_Witness ==
    /\ last.op = "on_created"
    /\ last.doc = Doc1
    /\ ~Has(pending, Key1)
    /\ Has(pending, Key2)
    /\ Cardinality(SidesHeld(pending[Key2])) = 1
    /\ Count(emits, <<"live", Doc1>>) = 1

(***************************************************************************)
(* C9.  Two files of the same key and the same side, P1 then P2, before    *)
(* the other side: the second replaces the first in the entry and nothing  *)
(* is emitted at that moment; the document emitted when the other side     *)
(* arrives uses P2 and not P1.  As steps: a delivery of P2 to an entry     *)
(* that holds only the same side leaves the entry holding that side with   *)
(* P2 alone and writes nothing; a delivery that emits takes the page of    *)
(* the other side from what the entry holds then.                          *)
(***************************************************************************)
C9_SameSideAgain ==
    LET k == KeyIs(Arriving)
        s == SideIs(Arriving)
    IN (/\ Arriving \in ValidEntries
        /\ Has(pending, k)
        /\ SidesHeld(pending[k]) = {s})
       => /\ emits' = emits
          /\ outdir' = outdir
          /\ Has(pending', k)
          /\ DOMAIN pending'[k] = {<<s>>}
          /\ Held(pending'[k], s) = Head(queue).path

C9_EmissionUsesHeld ==
    LET k == KeyIs(Arriving)
        s == SideIs(Arriving)
    IN (/\ Arriving \in ValidEntries
        /\ Has(pending, k)
        /\ SidesHeld(pending[k]) = {OtherSide(s)})
       => /\ Has(outdir', DocIs(Arriving))
          /\ Len(outdir'[DocIs(Arriving)].pages) = 2
          /\ outdir'[DocIs(Arriving)].pages[IF s = "L" THEN 2 ELSE 1]
                = Held(pending[k], OtherSide(s))
          /\ outdir'[DocIs(Arriving)].pages[IF s = "L" THEN 1 ELSE 2]
                = Head(queue).path

C9_DuplicateSideKeepsLast ==
    [][ /\ (\E d \in BOOLEAN : Delivered(d)) => C9_SameSideAgain
        /\ Delivered(FALSE) => C9_EmissionUsesHeld ]_vars

\* a_b_c_L_d.jpg, then a_b_c_L_d.PNG, then a_b_c_R_d.jpg: page one of the
\* document is the .PNG.
C9_Witness ==
    /\ nEvents = 3
    /\ indir = {FileL1, FileL1b, FileR1}
    /\ queue = <<>>
    /\ last.path = PathOf(FileR1)
    /\ last.doc = Doc1
    /\ outdir[Doc1].pages = <<PathOf(FileL1b), PathOf(FileR1)>>
    /\ Count(emits, <<"live", Doc1>>) = 1

(***************************************************************************)
(* C10.  A decode failure during a live assembly for key K leaves the      *)
(* entry for K in the store with both sides recorded, and leaves every     *)
(* other entry and the output as they were; a later arrival of either      *)
(* side for K attempts the assembly again.                                 *)
(***************************************************************************)
C10_FailureKeepsEntry ==
    LET k == KeyIs(Arriving)
        s == SideIs(Arriving)
    IN /\ Arriving \in ValidEntries
       /\ Has(pending, k)
       /\ DOMAIN pending' = DOMAIN pending
       /\ DOMAIN pending'[k] = {<<"L">>, <<"R">>}
       /\ Held(pending'[k], s) = Head(queue).path
       /\ Held(pending'[k], OtherSide(s)) = Held(pending[k], OtherSide(s))
       /\ \A k2 \in DOMAIN pending : k2 # k => pending'[k2] = pending[k2]
       /\ outdir' = outdir
       /\ emits' = emits

C10_BothSidesHeld ==
    /\ Arriving \in ValidEntries
    /\ Has(pending, KeyIs(Arriving))
    /\ SidesHeld(pending[KeyIs(Arriving)]) = {"L", "R"}

C10_DecodeFailureKeepsEntry ==
    [][ /\ Delivered(TRUE) => C10_FailureKeepsEntry
        /\ (Delivered(FALSE) /\ C10_BothSidesHeld)
             => /\ OneMoreEmission(emits, emits', "live", DocIs(Arriving))
                /\ Has(outdir', DocIs(Arriving))
                /\ ~Has(pending', KeyIs(Arriving)) ]_vars

\* L and R of key 1 arrived and the assembly failed; the third arrival,
\* another L of the key, assembled the document.
C10_Witness ==
    /\ nEvents = 3
    /\ indir = {FileL1, FileR1, FileL1b}
    /\ queue = <<>>
    /\ last.op = "on_created"
    /\ last.path = PathOf(FileL1b)
    /\ last.doc = Doc1
    /\ outdir[Doc1].pages = <<PathOf(FileL1b), PathOf(FileR1)>>
    /\ ~Has(pending, Key1)

(***************************************************************************)
(* C11.  A decode failure in backfill is confined to its pair: every run   *)
(* that ends has reported a pair count, and of the complete pairs of its   *)
(* snapshot at most the one that could not be decoded is missing from the  *)
(* documents it emitted.                                                   *)
(***************************************************************************)
C11_BackfillFailureConfined ==
    \A i \in DOMAIN fillLog :
        /\ fillLog[i].reported
        /\ Cardinality(CompleteDocs(fillLog[i].snap) \ Range(fillLog[i].docs)) <= 1

(***************************************************************************)
(* File names built from token lists, for the properties of key            *)
(* extraction.  An entry carries the tokens and the extension its name     *)
(* was built from.                                                         *)
(***************************************************************************)
\* Tokens after the side token in a generated name.
MaxTail == 2

FirstTokens == { <<"a">>, <<"b">> }
ThirdTokens == { <<"c">>, <<>> }
SideTokens  == { <<"L">>, <<"R">>, <<"X">>, <<"l">> }
TailTokens  == { <<"d">>, <<"d", ".", "e">> }
Extensions  == { <<".", "j", "p", "g">>, <<".", "J", "P", "G">>, <<".", "j", "p", "e", "g">>,
                 <<".", "p", "n", "g">>, <<".", "t", "x", "t">>, <<>> }

Tails == UNION {[1..n -> TailTokens] : n \in 0..MaxTail}

Stems(sides) ==
    { <<t1, t2, t3, s>> \o tl :
        t1 \in FirstTokens, t2 \in FirstTokens, t3 \in ThirdTokens, s \in sides, tl \in Tails }

NamedEntry(toks, ext) ==
    [name |-> Chars(toks) \o ext, isdir |-> FALSE, toks |-> toks, ext |-> ext]

NameEntries == {NamedEntry(st, x) : st \in Stems(SideTokens), x \in Extensions}

\* One file of a generated name is created while watching; the live handler
\* takes its event and one backfill lists the directory.
NextNames ==
    \/ indir = {} /\ \E e \in NameEntries : CreateFile(e)
    \/ \E decodeFails \in BOOLEAN : OnCreated(decodeFails)
    \/ fillLog = <<>> /\ \E listing \in Listings(indir) : BackfillStart(listing)
    \/ \E decodeFails \in BOOLEAN : BackfillStep(decodeFails)
    \/ BackfillReport

SpecNames == Init /\ [][NextNames]_vars

\* What a generated entry is, by the acceptance contract.
ImageExtensions == { <<".", "j", "p", "g">>, <<".", "J", "P", "G">>,
                     <<".", "j", "p", "e", "g">>, <<".", "p", "n", "g">> }
NameAccepted(e) ==
    /\ e.ext \in ImageExtensions
    /\ Len(e.toks) >= 5
    /\ e.toks[4] \in { <<"L">>, <<"R">> }
\* Tokens 0-2 and 4+ joined with '_'.
NameKey(e) == Chars(SubSeq(e.toks, 1, 3) \o SubSeq(e.toks, 5, Len(e.toks)))

(***************************************************************************)
(* C12.  The live path and backfill agree on every file name: the live     *)
(* path accepts a file exactly when backfill accepts it, and both derive   *)
(* the same key and the same side.  Once the live handler has taken the    *)
(* event of the one file of the directory and a backfill has listed the    *)
(* directory, the live store and backfill's dict are equal: empty for a    *)
(* name the contract rejects, and else one entry under the key of tokens   *)
(* 0-2 and 4+, holding the side of token 3.                                *)
(***************************************************************************)
C12_LiveAndBackfillAgree ==
    (nEvents = 1 /\ queue = <<>> /\ indir # {} /\ frun.snap = indir) =>
        \A e \in indir :
            /\ pending = fpending
            /\ (pending # EmptyMap) <=> NameAccepted(e)
            /\ NameAccepted(e) =>
                 /\ DOMAIN pending = {NameKey(e)}
                 /\ DOMAIN pending[NameKey(e)] = {e.toks[4]}
            /\ LiveAccepts(EventOf(e).path, e.isdir) <=> FillAccepts(e.name, e.isdir)

\* An accepted name with an upper-case extension and a dot in its last
\* token went through both drivers.
C12_Witness ==
    /\ nEvents = 1 /\ queue = <<>> /\ frun.snap = indir
    /\ pending # EmptyMap
    /\ pending = fpending
    /\ \E e \in indir : e.ext = <<".", "J", "P", "G">> /\ e.toks[Len(e.toks)] = <<"d", ".", "e">>

(***************************************************************************)
(* Backfill over a directory of two generated names with a side L or R.    *)
(***************************************************************************)
KeyEntries == {NamedEntry(st, Jpg) : st \in Stems({ <<"L">>, <<"R">> })}

InitKeys ==
    /\ InitCommon
    /\ \E e1 \in KeyEntries, e2 \in KeyEntries : indir = {e1, e2}
    /\ outdir = EmptyMap
    /\ now = Epoch
    /\ watching = FALSE

NextKeys ==
    \/ fillLog = <<>> /\ \E listing \in Listings(indir) : BackfillStart(listing)
    \/ \E decodeFails \in BOOLEAN : BackfillStep(decodeFails)
    \/ BackfillReport

SpecKeys == InitKeys /\ [][NextKeys]_vars

\* Token sequences of the same length, equal at every index but index 3.
SameButSide(t, u) ==
    /\ Len(t) = Len(u)
    /\ \A i \in 1..Len(t) : i # 4 => t[i] = u[i]

(***************************************************************************)
(* C13.  The key is injective up to the side token: two accepted           *)
(* extension-stripped base names have equal keys if and only if their      *)
(* token sequences have the same length and are equal at every index       *)
(* other than index 3.  In the dict backfill builds from a directory of    *)
(* two such names, the two fall under one key exactly in that case.        *)
(***************************************************************************)
C13_KeyInjectiveUpToSide ==
    (frun.snap = indir /\ indir # {}) =>
        \A e1 \in indir, e2 \in indir :
          (NameAccepted(e1) /\ NameAccepted(e2)) =>
            /\ (KeyOf(FillTokens(e1.name)) = KeyOf(FillTokens(e2.name)))
                   <=> SameButSide(e1.toks, e2.toks)
            /\ (e1 # e2) =>
                 ((Cardinality(DOMAIN fpending) = 1) <=> SameButSide(e1.toks, e2.toks))
            /\ (e1 # e2) =>
                 ((Cardinality(DOMAIN fpending) = 2) <=> ~SameButSide(e1.toks, e2.toks))

\* Two names that differ in the side token only are under one key, with
\* both sides.
C13_Witness ==
    /\ frun.snap = indir
    /\ Cardinality(DOMAIN fpending) = 1
    /\ \E e1 \in indir, e2 \in indir :
          /\ e1.toks[4] # e2.toks[4]
          /\ SameButSide(e1.toks, e2.toks)
          /\ Len(e1.toks) = 6
          /\ DOMAIN fpending[NameKey(e1)] = {e1.toks[4], e2.toks[4]}

(***************************************************************************)
(* C14.  No-archive frame: no step of the pairing path, live or backfill,  *)
(* successful or failed, moves, renames, deletes or modifies a file of     *)
(* the watched directory; the set of source files is the same before and   *)
(* after every emission.  Only the creation of a file changes the          *)
(* directory, and it adds to it.                                           *)
(***************************************************************************)
PairingStep ==
    \/ \E d \in BOOLEAN : OnCreated(d)
    \/ \E listing \in Listings(indir) : BackfillStart(listing)
    \/ \E d \in BOOLEAN : BackfillStep(d)
    \/ BackfillReport

C14_SourcesLeftInPlace ==
    [][ /\ PairingStep => indir' = indir
        /\ (emits' # emits) => indir' = indir
        /\ indir \subseteq indir' ]_vars

\* The pair of key 1 was emitted by the live path and again by a backfill,
\* and both source files are where they were.
C14_Witness ==
    /\ last.op = "backfill_emit"
    /\ last.doc = Doc1
    /\ Count(emits, <<"live", Doc1>>) = 1
    /\ Count(emits, <<"backfill", Doc1>>) = 1
    /\ indir = {FileL1, FileR1}

(***************************************************************************)
(* C15.  Backfill isolation: a backfill run never adds to, overwrites or   *)
(* removes an entry of the live handler's pending store; the live store    *)
(* changes by live events only.                                            *)
(***************************************************************************)
BackfillSteps ==
    \/ \E listing \in Listings(indir) : BackfillStart(listing)
    \/ \E d \in BOOLEAN : BackfillStep(d)
    \/ BackfillReport

C15_BackfillLeavesLiveStore ==
    [][ /\ BackfillSteps => pending' = pending
        /\ (pending' # pending) => \E d \in BOOLEAN : OnCreated(d) ]_vars

\* A backfill emitted the document of key 1 while the live store held the
\* L side of that key, and the live store still holds it.
C15_Witness ==
    /\ watching
    /\ last.op = "backfill_emit"
    /\ last.doc = Doc1
    /\ Has(pending, Key1)
    /\ SidesHeld(pending[Key1]) = {"L"}
    /\ fhandler = EmptyMap

(***************************************************************************)
(* C16.  No double emission across drivers: when a backfill runs while     *)
(* live watching is active, no pair of source files is emitted once by     *)
(* the live path and once again by the backfill.  In the behaviours of     *)
(* Spec a key has one L file and one R file, so a document name stands     *)
(* for one pair of source files.                                           *)
(***************************************************************************)
C16_NoDoubleEmission ==
    \A doc \in {Doc1, Doc2} :
        ~(/\ watching
          /\ Count(emits, <<"live", doc>>) >= 1
          /\ Count(emits, <<"backfill", doc>>) >= 1)

(***************************************************************************)
(* Watching sessions: the live path with stop_watching and start_watching. *)
(***************************************************************************)
SessionEntries == {FileL1, FileR1, FileL2}

NextSession ==
    \/ \E e \in SessionEntries : CreateFile(e)
    \/ \E decodeFails \in BOOLEAN : OnCreated(decodeFails)
    \/ StartWatching
    \/ StopWatching

SpecSession == Init /\ [][NextSession]_vars

\* The paths the handler of the current session has been given.
ArrivedNow == arrived[Len(arrived)]

(***************************************************************************)
(* C19.  Every start-watching begins with an empty pending store, so a     *)
(* side recorded during one watching session never completes a pair with   *)
(* a side that arrives in a later session: the store holds paths that      *)
(* arrived in the current session only, and both pages of a document the   *)
(* live path emits arrived in the session that emits it.                   *)
(***************************************************************************)
C19_StoreOfThisSession == PathsOf(pending) \subseteq ArrivedNow

C19_EmissionOfThisSession ==
    (emits' # emits) =>
        /\ last'.doc # NoDoc
        /\ Has(outdir', last'.doc)
        /\ {outdir'[last'.doc].pages[i] : i \in DOMAIN outdir'[last'.doc].pages}
              \subseteq arrived'[Len(arrived')]

C19_SessionStartsEmpty ==
    [][ /\ StartWatching => (pending' = EmptyMap /\ queue' = <<>>)
        /\ (\E d \in BOOLEAN : OnCreated(d)) => C19_EmissionOfThisSession
        /\ C19_StoreOfThisSession' ]_vars

\* The L file of key 1 arrived in the first session, the R file alone in
\* the second: the R side waits and there is no document.
C19_Witness ==
    /\ Len(arrived) = 2
    /\ PathOf(FileL1) \in arrived[1]
    /\ arrived[2] = {PathOf(FileR1)}
    /\ watching
    /\ queue = <<>>
    /\ outdir = EmptyMap
    /\ Has(pending, Key1)
    /\ SidesHeld(pending[Key1]) = {"R"}

(***************************************************************************)
(* C18.  A flushed key needs a whole new pair: after the document of key   *)
(* K has been emitted in the live path and its entry removed, the arrival  *)
(* of one further file of key K creates a new entry holding only that      *)
(* side and emits nothing; a further document of K is emitted only by an   *)
(* arrival that finds the other side in an entry made since; so at any     *)
(* time the live path has emitted at most one document for every two       *)
(* events the handler has taken.                                           *)
(***************************************************************************)
LiveDocs == Count(emits, <<"live", Doc1>>) + Count(emits, <<"live", Doc2>>)

C18_Flushed ==
    /\ Arriving \in ValidEntries
    /\ ~Has(pending, KeyIs(Arriving))
    /\ Count(emits, <<"live", DocIs(Arriving)>>) >= 1

C18_LoneArrival ==
    /\ emits' = emits
    /\ outdir' = outdir
    /\ DOMAIN pending' = DOMAIN pending \cup {KeyIs(Arriving)}
    /\ DOMAIN pending'[KeyIs(Arriving)] = {<<SideIs(Arriving)>>}
    /\ Held(pending'[KeyIs(Arriving)], SideIs(Arriving)) = Head(queue).path

C18_EmitsAgain ==
    /\ Arriving \in ValidEntries
    /\ Count(emits, <<"live", DocIs(Arriving)>>) >= 1
    /\ Count(emits', <<"live", DocIs(Arriving)>>) > Count(emits, <<"live", DocIs(Arriving)>>)

C18_FlushedKeyNeedsNewPair ==
    [][ /\ ((\E d \in BOOLEAN : Delivered(d)) /\ C18_Flushed) => C18_LoneArrival
        /\ ((\E d \in BOOLEAN : Delivered(d)) /\ C18_EmitsAgain)
              => /\ Has(pending, KeyIs(Arriving))
                 /\ OtherSide(SideIs(Arriving)) \in SidesHeld(pending[KeyIs(Arriving)])
        /\ (2 * LiveDocs <= nEvents - Len(queue))' ]_vars

\* L, R, L, R of key 1: the second pair gave the second document.
C18_Witness ==
    /\ nEvents = 4
    /\ queue = <<>>
    /\ Count(emits, <<"live", Doc1>>) = 2
    /\ ~Has(pending, Key1)

(***************************************************************************)
(* The retention sweep beside the live path: the output directory holds    *)
(* an older document of key 1 when the pair of key 1 arrives.              *)
(***************************************************************************)
RaceEntries == {FileL1, FileR1}

InitRace ==
    /\ InitCommon
    /\ indir = {}
    /\ watching = TRUE
    /\ now = Epoch
    /\ outdir \in OutDirs({Doc1})

NextRace ==
    \/ nEvents < MaxPairEvents /\ \E e \in RaceEntries : CreateFile(e)
    \/ \E decodeFails \in BOOLEAN : OnCreated(decodeFails)
    \/ \E listing \in Listings(DOMAIN outdir), listFails \in BOOLEAN :
          AutoClean(listing, listFails)
    \/ \E statFails \in BOOLEAN : SweepFile(statFails)
    \/ \E removeFails \in BOOLEAN : SweepRemove(removeFails)
    \/ SweepEnd

SpecRace == InitRace /\ [][NextRace]_vars

(***************************************************************************)
(* C17.  Sweeper versus assembler: under every interleaving of a sweep     *)
(* with an emission that writes or overwrites a document, a step that      *)
(* deletes a document deletes one whose age at that moment exceeds the     *)
(* threshold of 30 whole days.                                             *)
(***************************************************************************)
C17_DeletesOnlyExpired ==
    [][ \A n \in DOMAIN outdir :
            (n \notin DOMAIN outdir') => OlderThanThirtyDays(now - outdir[n].mtime) ]_vars

(***************************************************************************)
(* Watching sessions beside the sweep timer.                               *)
(***************************************************************************)
TimerNames == { <<"x", ".", "p", "d", "f">>, <<"z", ".", "t", "x", "t">> }

InitTimers ==
    /\ InitCommon
    /\ indir = {}
    /\ watching = TRUE
    /\ now = Epoch
    /\ \E names \in SUBSET TimerNames : outdir \in OutDirs(names)

NextTimers ==
    \/ StartWatching
    \/ StopWatching
    \/ \E listing \in Listings(DOMAIN outdir), listFails \in BOOLEAN :
          AutoClean(listing, listFails)
    \/ \E statFails \in BOOLEAN : SweepFile(statFails)
    \/ \E removeFails \in BOOLEAN : SweepRemove(removeFails)
    \/ SweepEnd

SpecTimers == InitTimers /\ [][NextTimers]_vars

(***************************************************************************)
(* C20.  After any sequence of start-watching and stop-watching commands   *)
(* at most one recurring sweep is armed at any time.                       *)
(***************************************************************************)
C20_OneSweepArmed == timers <= 1

====
